---------------------------- MODULE Spec2Model ----------------------------
(***************************************************************************)
(* Model of worker/worker.py: the Valorant round-detection worker.         *)
(*                                                                         *)
(* Timestamps are the floats the worker produces: float(timestamp) for     *)
(* timestamp in range(0, int(duration), 5).  They are represented as       *)
(* integers in milliseconds, so that round(x, 2) is a real operation       *)
(* (rounding to a multiple of 10 ms) and not a syntactic identity.         *)
(***************************************************************************)
EXTENDS Integers, Sequences, FiniteSets, TLC

VARIABLES
    scene_changes,          \* worker.py:114  timestamps of the frames sampled successfully
    round_win_timestamps,   \* worker.py:113  timestamps where "ROUND WIN" was read
    gameplay_periods,       \* worker.py:178  sequence of <<start, end>>
    rounds,                 \* worker.py:213  result of build_rounds_from_wins
    phase,                  \* position of the pure-function harness
    redis,                  \* worker.py:20-30  the store: key -> JSON text, <<>> when absent
    now,                    \* worker.py:302  time.time()
    call,                   \* worker.py:253-309  per worker, the frame of its process_video call
    cache_writes,           \* per key, the setex calls since the key was last absent
    cache_inputs,           \* per key, the (wins, periods) its stored entry was computed from
    job_queue,              \* worker.py:350  the list 'job_queue' of the store
    job,                    \* worker.py:312-340  per worker, the frame of its process_job call
    job_store,              \* worker.py:321-336  per job id, the keys job:<id>:status/result/error
    job_log                 \* per job id, the statuses written in order, and what the job's calls returned

hvars == <<scene_changes, round_win_timestamps, gameplay_periods, rounds, phase>>
svars == <<redis, now, call, cache_writes, cache_inputs>>
jvars == <<job_queue, job, job_store, job_log>>
vars == <<hvars, svars, jvars>>

\* n seconds, in the model's unit (milliseconds).
Sec(n) == n * 1000

(***************************************************************************)
(* Bounds of the model.                                                    *)
(***************************************************************************)
MaxSamples == 4
MaxWins == 3
MaxPeriods == 2
MaxFrames == 2
MaxClock == 2
MaxJobs == 2

(***************************************************************************)
(* Activity segmenter: worker.py:177-194.                                  *)
(***************************************************************************)

\* Mutant of GapSplits: the threshold test made inclusive.
GapSplitsInclusive(gap) == gap >= Sec(180)

\* worker.py:187  if gap > 180
GapSplits(gap) == gap > Sec(180)

\* Mutant of ClosePeriod: the period is closed at the sample after the gap.
ClosePeriodAtCurrent(periods, current_start, last_timestamp, timestamp) ==
    Append(periods, <<current_start, timestamp>>)

\* worker.py:188  gameplay_periods.append((current_start, last_timestamp))
ClosePeriod(periods, current_start, last_timestamp, timestamp) ==
    Append(periods, <<current_start, last_timestamp>>)

\* worker.py:183-194: the loop over scene_changes[1:], then the final append.
RECURSIVE SegmentLoop(_, _, _, _, _)
SegmentLoop(sc, i, current_start, last_timestamp, periods) ==
    IF i > Len(sc)
    THEN Append(periods, <<current_start, last_timestamp>>)
    ELSE LET timestamp == sc[i]
             gap == timestamp - last_timestamp
         IN  IF GapSplits(gap)
             THEN SegmentLoop(sc, i + 1, timestamp, timestamp,
                              ClosePeriod(periods, current_start, last_timestamp, timestamp))
             ELSE SegmentLoop(sc, i + 1, current_start, timestamp, periods)

\* worker.py:178-194: gameplay_periods from scene_changes.
DetectGameplayPeriods(sc) ==
    IF sc = <<>> THEN <<>> ELSE SegmentLoop(sc, 2, sc[1], sc[1], <<>>)

(***************************************************************************)
(* Inputs of the segmenter: ascending sample sequences.  The sampling loop *)
(* (worker.py:120-157) appends multiples of 5 s in increasing order, a     *)
(* frame that fails or times out being skipped; a sequence is described by *)
(* its first sample and the gaps between consecutive samples.              *)
(***************************************************************************)
SampleStarts == {0, Sec(5)}
SampleGaps == {Sec(5), Sec(175), Sec(180), Sec(185)}

RECURSIVE SeqsByGaps(_, _, _)
SeqsByGaps(starts, gaps, n) ==
    IF n = 0 THEN {<<>>}
    ELSE LET prev == SeqsByGaps(starts, gaps, n - 1)
         IN  prev \cup
             (IF n = 1 THEN {<<s>> : s \in starts}
              ELSE {Append(q, q[Len(q)] + g) :
                        q \in {p \in prev : Len(p) = n - 1}, g \in gaps})

SampleSeqs == SeqsByGaps(SampleStarts, SampleGaps, MaxSamples)

(***************************************************************************)
(* Round builder: worker.py:205-250.                                       *)
(***************************************************************************)
MIN_ROUND_DURATION == 30
MAX_ROUND_DURATION == 180

Max(a, b) == IF a >= b THEN a ELSE b

\* Python's round(x, 2) on a value in milliseconds: the nearest multiple of
\* 10 ms, a tie going to the even hundredth.
Round2(x) ==
    LET q == x \div 10
        r == x % 10
    IN  10 * (IF r > 5 \/ (r = 5 /\ q % 2 = 1) THEN q + 1 ELSE q)

\* Mutant of InPeriod: a half-open bound.
InPeriodHalfOpen(period, win_time) ==
    period[1] <= win_time /\ win_time < period[2]

\* worker.py:219  if start <= win_time <= end
InPeriod(period, win_time) ==
    period[1] <= win_time /\ win_time <= period[2]

\* worker.py:218-221: the scan of the periods for one win, left at the
\* first period that holds it (break).
RECURSIVE ScanPeriods(_, _, _, _)
ScanPeriods(valid_wins, win_time, periods, j) ==
    IF j > Len(periods) THEN valid_wins
    ELSE IF InPeriod(periods[j], win_time)
         THEN Append(valid_wins, win_time)
         ELSE ScanPeriods(valid_wins, win_time, periods, j + 1)

\* Mutant of KeepWin: with no periods at all every win is kept.
KeepWinUnlessNoPeriods(valid_wins, win_time, periods) ==
    IF periods = <<>> THEN Append(valid_wins, win_time)
    ELSE ScanPeriods(valid_wins, win_time, periods, 1)

\* worker.py:217-221: one iteration of the filter loop.
KeepWin(valid_wins, win_time, periods) ==
    ScanPeriods(valid_wins, win_time, periods, 1)

\* worker.py:216-221: valid_wins.
RECURSIVE FilterWins(_, _, _, _)
FilterWins(wins, i, periods, valid_wins) ==
    IF i > Len(wins) THEN valid_wins
    ELSE FilterWins(wins, i + 1, periods, KeepWin(valid_wins, wins[i], periods))

\* worker.py:228  first_gameplay_start
FirstGameplayStart(periods) ==
    IF periods # <<>> THEN periods[1][1] ELSE 0

\* Mutant of RoundStart: every round starts 90 s before its win.
RoundStartAlwaysBuffer(valid_wins, i, first_gameplay_start) ==
    Max(first_gameplay_start, valid_wins[i] - Sec(90))

\* Mutant of RoundStart: the first round starts 30 s before its win, as the
\* comments at worker.py:227 and 232 say.
RoundStartCommentBuffer(valid_wins, i, first_gameplay_start) ==
    IF i = 1
    THEN Max(first_gameplay_start, valid_wins[i] - Sec(30))
    ELSE valid_wins[i - 1] + Sec(5)

\* worker.py:231-236  round_start (i is 1-based here, 0-based in the code)
RoundStart(valid_wins, i, first_gameplay_start) ==
    IF i = 1
    THEN Max(first_gameplay_start, valid_wins[i] - Sec(90))
    ELSE valid_wins[i - 1] + Sec(5)

\* Mutant of Plausible: the filter written with the module constants.
PlausibleNominal(duration) ==
    Sec(MIN_ROUND_DURATION) <= duration /\ duration <= Sec(MAX_ROUND_DURATION)

\* worker.py:242  if 30 <= duration <= 300
Plausible(duration) ==
    Sec(30) <= duration /\ duration <= Sec(300)

\* Mutant of RoundIndex: the candidate's position instead of the count of
\* accepted rounds.
RoundIndexOfCandidate(accepted, i) == i

\* worker.py:244  'round': len(rounds) + 1
RoundIndex(accepted, i) == Len(accepted) + 1

\* worker.py:243-248: the dict appended for an accepted candidate.
MakeRound(accepted, i, round_start, round_end, duration) ==
    [round |-> RoundIndex(accepted, i),
     start |-> Round2(round_start),
     end |-> Round2(round_end),
     duration |-> Round2(duration)]

\* worker.py:230-248: the loop over enumerate(valid_wins).
RECURSIVE BuildLoop(_, _, _, _)
BuildLoop(valid_wins, i, first_gameplay_start, accepted) ==
    IF i > Len(valid_wins) THEN accepted
    ELSE LET win_time == valid_wins[i]
             round_start == RoundStart(valid_wins, i, first_gameplay_start)
             round_end == win_time
             duration == round_end - round_start
         IN  IF Plausible(duration)
             THEN BuildLoop(valid_wins, i + 1, first_gameplay_start,
                            Append(accepted,
                                   MakeRound(accepted, i, round_start, round_end, duration)))
             ELSE BuildLoop(valid_wins, i + 1, first_gameplay_start, accepted)

\* worker.py:205-250
build_rounds_from_wins(wins, periods) ==
    IF wins = <<>> THEN <<>>
    ELSE LET valid_wins == FilterWins(wins, 1, periods, <<>>)
         IN  IF valid_wins = <<>> THEN <<>>
             ELSE BuildLoop(valid_wins, 1, FirstGameplayStart(periods), <<>>)

(***************************************************************************)
(* Inputs of the round builder.  Event sequences are described by their    *)
(* first event and the gaps between consecutive events; a negative gap     *)
(* gives an unordered sequence, which the function accepts.  Periods are   *)
(* pairs start <= end over a few instants.                                 *)
(***************************************************************************)
WinStarts == {Sec(95), Sec(130)}
WinGaps == {0 - Sec(50), Sec(30), Sec(35), Sec(185), Sec(305), Sec(310)}
WinSeqs == SeqsByGaps(WinStarts, WinGaps, MaxWins)

PeriodInstants == {0, Sec(100), Sec(400), Sec(600)}
PeriodPairs == {p \in PeriodInstants \X PeriodInstants : p[1] <= p[2]}

RECURSIVE SeqsOver(_, _)
SeqsOver(S, n) ==
    IF n = 0 THEN {<<>>}
    ELSE LET prev == SeqsOver(S, n - 1)
         IN  prev \cup {Append(q, x) : q \in {p \in prev : Len(p) = n - 1}, x \in S}

PeriodSeqs == SeqsOver(PeriodPairs, MaxPeriods)

Ascending(s) == \A i \in 1..(Len(s) - 1) : s[i] <= s[i + 1]
AscendingPeriods(ps) ==
    /\ \A i \in 1..Len(ps) : ps[i][1] <= ps[i][2]
    /\ \A i \in 1..(Len(ps) - 1) : ps[i][2] <= ps[i + 1][1]

(***************************************************************************)
(* process_video: worker.py:253-309, with the store and the clock.         *)
(***************************************************************************)
Workers == {"w1", "w2"}

\* Python's None where a string is expected.
NoneId == "<None>"

\* A URL as urlparse splits it (worker.py:40): netloc, the path as its
\* segments after the leading '/', the query as (key, value) pairs.
Url(netloc, path, query) == [netloc |-> netloc, path |-> path, query |-> query]

Urls ==
    { Url("youtu.be", <<"abc">>, <<>>),                          \* https://youtu.be/abc
      Url("www.youtube.com", <<"watch">>, << <<"v", "abc">> >>), \* https://www.youtube.com/watch?v=abc
      Url("www.youtube.com", <<"embed", "abc">>, <<>>),          \* https://www.youtube.com/embed/abc
      Url("www.youtube.com", <<"watch">>, << <<"t", "30s">> >>), \* https://www.youtube.com/watch?t=30s
      Url("www.youtube.com", <<"playlist">>, <<>>),              \* https://www.youtube.com/playlist
      Url("youtu.be", <<"">>, <<>>),                             \* https://youtu.be/
      Url("vimeo.com", <<"abc">>, <<>>),                         \* https://vimeo.com/abc
      Url("[youtube.com", <<"watch">>, << <<"v", "abc">> >>) }   \* https://[youtube.com/watch?v=abc

NoUrl == Url("", <<>>, <<>>)

\* worker.py:315  job_data.get('videoUrl') of a job record without the key.
NoneUrl == Url(NoneId, <<>>, <<>>)

\* worker.py:40  urlparse(url) raises ValueError for a netloc with an
\* unmatched bracket; worker.py:42  'youtu.be' in parsed.netloc raises
\* TypeError for None, whose netloc is bytes.  "" when nothing is raised.
UrlError(url) ==
    IF url = NoneUrl THEN "a bytes-like object is required, not 'str'"
    ELSE IF url.netloc \in {"[youtube.com"} THEN "Invalid IPv6 URL"
    ELSE ""

\* worker.py:46-47  parse_qs(parsed.query).get(key, [None])[0]
QueryGet(query, key) ==
    IF \E i \in 1..Len(query) : query[i][1] = key
    THEN query[CHOOSE i \in 1..Len(query) :
                   /\ query[i][1] = key
                   /\ \A j \in 1..(i - 1) : query[j][1] # key][2]
    ELSE NoneId

\* worker.py:38-51  (a youtu.be path holds one segment in Urls, so that
\* path.lstrip('/') is that segment)
extract_video_id(url) ==
    IF url.netloc \in {"youtu.be", "www.youtu.be"}
    THEN url.path[1]
    ELSE IF url.netloc \in {"youtube.com", "www.youtube.com", "m.youtube.com"}
         THEN IF \E i \in 1..Len(url.path) : url.path[i] = "watch"
              THEN QueryGet(url.query, "v")
              ELSE IF \E i \in 1..(Len(url.path) - 1) : url.path[i] = "embed"
                   THEN url.path[1 + CHOOSE i \in 1..(Len(url.path) - 1) :
                                        /\ url.path[i] = "embed"
                                        /\ \A j \in 1..(i - 1) : url.path[j] # "embed"]
                   ELSE NoneId
         ELSE NoneId

VideoIds == {extract_video_id(u) : u \in Urls}

\* worker.py:264  cache_key = f'rounds:{video_id}'
RoundsKey(video_id) == <<"rounds", video_id>>

Keys == {RoundsKey(v) : v \in VideoIds}

\* Mutant of IdMissing: the test written "video_id is None".
IdIsNone(video_id) == video_id = NoneId

\* worker.py:257  if not video_id
IdMissing(video_id) == video_id = NoneId \/ video_id = ""

\* Mutant of CacheHit: the lookup's answer is ignored.
CacheHitNever(cached) == FALSE

\* worker.py:266  if cached
CacheHit(cached) == cached # <<>>

\* worker.py:258-261, 276-279, 282-285, 291-294: a failure result.
Failure(error) == [success |-> FALSE, error |-> error]

\* worker.py:296-303: the success result.
Success(video_id, video_url, rs, t) ==
    [success |-> TRUE,
     video_id |-> video_id,
     video_url |-> video_url,
     rounds |-> rs,
     total_rounds |-> Len(rs),
     processed_at |-> t]

\* json.dumps (worker.py:306): a dict becomes the text of its (key, value)
\* pairs in insertion order, a list the sequence of its elements' texts.
JsonRound(r) ==
    << <<"round", r.round>>, <<"start", r.start>>, <<"end", r.end>>,
       <<"duration", r.duration>> >>

JsonDumps(result) ==
    IF result.success
    THEN << <<"success", TRUE>>,
            <<"video_id", result.video_id>>,
            <<"video_url", result.video_url>>,
            <<"rounds", [k \in 1..Len(result.rounds) |-> JsonRound(result.rounds[k])]>>,
            <<"total_rounds", result.total_rounds>>,
            <<"processed_at", result.processed_at>> >>
    ELSE << <<"success", FALSE>>, <<"error", result.error>> >>

\* json.loads (worker.py:268): the value of a key of an object's text.
JsonGet(text, key) ==
    text[CHOOSE i \in 1..Len(text) : text[i][1] = key][2]

JsonLoadsRound(text) ==
    [round |-> JsonGet(text, "round"),
     start |-> JsonGet(text, "start"),
     end |-> JsonGet(text, "end"),
     duration |-> JsonGet(text, "duration")]

JsonLoads(text) ==
    IF JsonGet(text, "success")
    THEN [success |-> TRUE,
          video_id |-> JsonGet(text, "video_id"),
          video_url |-> JsonGet(text, "video_url"),
          rounds |-> LET rs == JsonGet(text, "rounds")
                     IN  [k \in 1..Len(rs) |-> JsonLoadsRound(rs[k])],
          total_rounds |-> JsonGet(text, "total_rounds"),
          processed_at |-> JsonGet(text, "processed_at")]
    ELSE [success |-> FALSE, error |-> JsonGet(text, "error")]

\* The result of a cache miss with the event test placed before the
\* period test.
ProcessResultWinsFirst(video_url, video_id, inputs, t) ==
    IF inputs[1] = <<>>
    THEN Failure("No rounds detected - could not find \"ROUND WIN\" text")
    ELSE IF inputs[2] = <<>>
         THEN Failure("No gameplay detected")
         ELSE LET rs == build_rounds_from_wins(inputs[1], inputs[2])
              IN  IF rs = <<>>
                  THEN Failure("Could not build rounds from detected wins")
                  ELSE Success(video_id, video_url, rs, t)

\* The result of a cache miss without the test for an empty round list.
ProcessResultUnchecked(video_url, video_id, inputs, t) ==
    IF inputs[2] = <<>>
    THEN Failure("No gameplay detected")
    ELSE IF inputs[1] = <<>>
         THEN Failure("No rounds detected - could not find \"ROUND WIN\" text")
         ELSE Success(video_id, video_url,
                      build_rounds_from_wins(inputs[1], inputs[2]), t)

\* worker.py:275-303: the result of a cache miss, from what the event/sample
\* source returned (inputs = <<round_win_timestamps, gameplay_periods>>).
ProcessResult(video_url, video_id, inputs, t) ==
    IF inputs[2] = <<>>
    THEN Failure("No gameplay detected")
    ELSE IF inputs[1] = <<>>
         THEN Failure("No rounds detected - could not find \"ROUND WIN\" text")
         ELSE LET rs == build_rounds_from_wins(inputs[1], inputs[2])
              IN  IF rs = <<>>
                  THEN Failure("Could not build rounds from detected wins")
                  ELSE Success(video_id, video_url, rs, t)

\* The subsequence of s at the indices in I.
SubSeqAt(s, I) ==
    LET F[i \in 0..Len(s)] ==
            IF i = 0 THEN <<>>
            ELSE IF i \in I THEN Append(F[i - 1], s[i]) ELSE F[i - 1]
    IN  F[Len(s)]

FrameStarts == {0}
FrameGaps == {Sec(185)}
FrameSeqs == SeqsByGaps(FrameStarts, FrameGaps, MaxFrames)

\* worker.py:85-202: what extract_keyframes_and_detect_rounds can return.
\* Video info that cannot be fetched or parsed gives ([], []) (lines
\* 103-105, 200-202).  Otherwise each frame of the sampling loop either
\* fails (skipped), or is sampled, with or without the "ROUND WIN" text
\* (lines 139-157): the wins are a subsequence of the samples, and the
\* periods are those of the samples.
ExtractResults ==
    { <<SubSeqAt(sc, I), DetectGameplayPeriods(sc)>> :
          sc \in FrameSeqs, I \in SUBSET (1..MaxFrames) }

InfoResults == {"ok", "nonzero", "timeout"}

\* worker.py:102-105, 198
ExtractReturn(info, extracted) ==
    IF info = "ok" THEN extracted ELSE <<<<>>, <<>>>>

NoResult == [unset |-> TRUE]

IdleCall ==
    [pc |-> "idle", video_url |-> NoUrl, video_id |-> NoneId, cached |-> <<>>,
     inputs |-> <<<<>>, <<>>>>, result |-> NoResult, ret |-> NoResult,
     invoked |-> FALSE, wrote |-> FALSE, tool |-> "none", exc |-> ""]

InitStore ==
    /\ redis = [k \in Keys |-> <<>>]
    /\ now = 0
    /\ call = [w \in Workers |-> IdleCall]
    /\ cache_writes = [k \in Keys |-> 0]
    /\ cache_inputs = [k \in Keys |-> <<<<>>, <<>>>>]

\* worker.py:255-268: the call up to and including the cache lookup.
ProcessVideoBegin(w, url) ==
    /\ call[w].pc = "idle"
    /\ LET video_id == extract_video_id(url)
           started == [IdleCall EXCEPT !.video_url = url, !.video_id = video_id]
       IN  IF UrlError(url) # ""
           THEN call' = [call EXCEPT ![w] =
                            [started EXCEPT !.pc = "raised", !.exc = UrlError(url)]]
           ELSE IF IdMissing(video_id)
           THEN call' = [call EXCEPT ![w] =
                            [started EXCEPT !.pc = "returned",
                                            !.ret = Failure("Invalid YouTube URL")]]
           ELSE LET cached == redis[RoundsKey(video_id)]
                IN  IF CacheHit(cached)
                    THEN call' = [call EXCEPT ![w] =
                                     [started EXCEPT !.pc = "returned",
                                                     !.cached = cached,
                                                     !.inputs = cache_inputs[RoundsKey(video_id)],
                                                     !.ret = JsonLoads(cached)]]
                    ELSE call' = [call EXCEPT ![w] =
                                     [started EXCEPT !.pc = "extracting",
                                                     !.cached = cached]]
    /\ UNCHANGED <<hvars, jvars, redis, now, cache_writes, cache_inputs>>

\* worker.py:271-303: the event/sample source is invoked and the result built.
\* The source runs yt-dlp once per frame, so the clock has advanced when
\* time.time() is read at line 302.
ExtractAndBuild(w, info, extracted) ==
    /\ call[w].pc = "extracting"
    /\ now < MaxClock
    /\ now' = now + 1
    /\ LET inputs == ExtractReturn(info, extracted)
           result == ProcessResult(call[w].video_url, call[w].video_id, inputs, now')
       IN  call' = [call EXCEPT ![w] =
                       IF result.success
                       THEN [@ EXCEPT !.pc = "caching", !.inputs = inputs,
                                      !.result = result, !.invoked = TRUE,
                                      !.tool = info]
                       ELSE [@ EXCEPT !.pc = "returned", !.inputs = inputs,
                                      !.ret = result, !.invoked = TRUE,
                                      !.tool = info]]
    /\ UNCHANGED <<hvars, jvars, redis, cache_writes, cache_inputs>>

\* worker.py:305-309: the result is stored, then returned.
CacheResult(w) ==
    /\ call[w].pc = "caching"
    /\ LET k == RoundsKey(call[w].video_id)
       IN  /\ redis' = [redis EXCEPT ![k] = JsonDumps(call[w].result)]
           /\ cache_writes' = [cache_writes EXCEPT ![k] = @ + 1]
           /\ cache_inputs' = [cache_inputs EXCEPT ![k] = call[w].inputs]
    /\ call' = [call EXCEPT ![w] = [@ EXCEPT !.pc = "returned", !.ret = call[w].result,
                                             !.wrote = TRUE]]
    /\ UNCHANGED <<hvars, jvars, now>>

\* The caller has the result or the exception; the worker is free for its
\* next call (worker.py:324, 373).
Return(w) ==
    /\ call[w].pc \in {"returned", "raised"}
    /\ call' = [call EXCEPT ![w] = IdleCall]
    /\ UNCHANGED <<hvars, jvars, redis, now, cache_writes, cache_inputs>>

\* worker.py:306: the entry's 7 days have passed.
Expire(k) ==
    /\ redis[k] # <<>>
    /\ redis' = [redis EXCEPT ![k] = <<>>]
    /\ cache_writes' = [cache_writes EXCEPT ![k] = 0]
    /\ cache_inputs' = [cache_inputs EXCEPT ![k] = <<<<>>, <<>>>>]
    /\ UNCHANGED <<hvars, jvars, now, call>>

(***************************************************************************)
(* process_job and worker_loop: worker.py:312-362.  The store is taken to  *)
(* answer every command.  The jobs run within the hour their keys live and *)
(* within the seven days of a cache entry.                                 *)
(***************************************************************************)
JobIds == 1..MaxJobs

\* A job key that is not in the store.
NoValue == ""

\* The video references of the queued jobs: two URLs of the same video, a
\* URL without a video id, a URL urlparse rejects, and a missing videoUrl.
JobUrls ==
    { Url("youtu.be", <<"abc">>, <<>>),
      Url("www.youtube.com", <<"watch">>, << <<"v", "abc">> >>),
      Url("vimeo.com", <<"abc">>, <<>>),
      Url("[youtube.com", <<"watch">>, << <<"v", "abc">> >>),
      NoneUrl }

\* The queue holds { jobId, videoUrl } records, each job id once.
JobQueues ==
    UNION { { q \in [1..n -> [jobId : JobIds, videoUrl : JobUrls]] :
                  \A i \in 1..n : q[i].jobId = i } : n \in 1..MaxJobs }

IdleJob ==
    [pc |-> "idle", job_id |-> 0, video_url |-> NoUrl, result |-> NoResult,
     e |-> ""]

NoLog ==
    [statuses |-> <<>>, tool |-> "none", returned |-> NoResult, ret |-> NoResult,
     done |-> FALSE]

InitJobs ==
    /\ job = [w \in Workers |-> IdleJob]
    /\ job_store = [j \in JobIds |-> [status |-> NoValue, result |-> <<>>, error |-> NoValue]]
    /\ job_log = [j \in JobIds |-> NoLog]

\* setex(f'job:{job_id}:status', 3600, status), with the order of the writes
\* recorded.
SetStatus(w, status) ==
    /\ job_store' = [job_store EXCEPT ![job[w].job_id].status = status]
    /\ job_log' = [job_log EXCEPT ![job[w].job_id].statuses = Append(@, status)]

\* Mutant of StoreResult: the result is not stored.
StoreResultNowhere(store, job_id, text) == store

\* worker.py:327  setex(f'job:{job_id}:result', 3600, json.dumps(result))
StoreResult(store, job_id, text) == [store EXCEPT ![job_id].result = text]

\* worker.py:350-355: brpop hands over the job at the right end of the list.
Brpop(w) ==
    /\ job[w].pc = "idle"
    /\ call[w].pc = "idle"
    /\ job_queue # <<>>
    /\ LET job_data == job_queue[Len(job_queue)]
       IN  job' = [job EXCEPT ![w] =
                      [IdleJob EXCEPT !.pc = "start",
                                      !.job_id = job_data.jobId,
                                      !.video_url = job_data.videoUrl]]
    /\ job_queue' = SubSeq(job_queue, 1, Len(job_queue) - 1)
    /\ UNCHANGED <<hvars, svars, job_store, job_log>>

\* worker.py:315-321
SetProcessing(w) ==
    /\ job[w].pc = "start"
    /\ SetStatus(w, "processing")
    /\ job' = [job EXCEPT ![w].pc = "call"]
    /\ UNCHANGED <<hvars, svars, job_queue>>

\* worker.py:324  process_video(video_url) is entered.
CallProcessVideo(w) ==
    /\ job[w].pc = "call"
    /\ ProcessVideoBegin(w, job[w].video_url)

\* worker.py:324, 327: process_video has returned and its result is stored.
ProcessVideoReturns(w) ==
    /\ job[w].pc = "call"
    /\ call[w].pc = "returned"
    /\ job_store' = StoreResult(job_store, job[w].job_id, JsonDumps(call[w].ret))
    /\ job_log' = [job_log EXCEPT ![job[w].job_id] =
                      [@ EXCEPT !.tool = call[w].tool, !.returned = call[w].ret]]
    /\ job' = [job EXCEPT ![w] = [@ EXCEPT !.pc = "stored", !.result = call[w].ret]]
    /\ call' = [call EXCEPT ![w] = IdleCall]
    /\ UNCHANGED <<hvars, redis, now, cache_writes, cache_inputs, job_queue>>

\* worker.py:324, 333: process_video has raised; the except clause has e.
ProcessVideoRaises(w) ==
    /\ job[w].pc = "call"
    /\ call[w].pc = "raised"
    /\ job' = [job EXCEPT ![w] = [@ EXCEPT !.pc = "except", !.e = call[w].exc]]
    /\ call' = [call EXCEPT ![w] = IdleCall]
    /\ UNCHANGED <<hvars, redis, now, cache_writes, cache_inputs, job_queue,
                   job_store, job_log>>

\* worker.py:328-331
SetCompleted(w) ==
    /\ job[w].pc = "stored"
    /\ job_store' = [job_store EXCEPT ![job[w].job_id].status = "completed"]
    /\ job_log' = [job_log EXCEPT ![job[w].job_id] =
                      [@ EXCEPT !.statuses = Append(@, "completed"),
                                !.ret = job[w].result, !.done = TRUE]]
    /\ job' = [job EXCEPT ![w] = IdleJob]
    /\ UNCHANGED <<hvars, svars, job_queue>>

\* worker.py:335
SetFailed(w) ==
    /\ job[w].pc = "except"
    /\ SetStatus(w, "failed")
    /\ job' = [job EXCEPT ![w].pc = "failed"]
    /\ UNCHANGED <<hvars, svars, job_queue>>

\* worker.py:336-340
SetError(w) ==
    /\ job[w].pc = "failed"
    /\ job_store' = [job_store EXCEPT ![job[w].job_id].error = job[w].e]
    /\ job_log' = [job_log EXCEPT ![job[w].job_id] =
                      [@ EXCEPT !.ret = Failure(job[w].e), !.done = TRUE]]
    /\ job' = [job EXCEPT ![w] = IdleJob]
    /\ UNCHANGED <<hvars, svars, job_queue>>

InitJob ==
    /\ scene_changes = <<>>
    /\ round_win_timestamps = <<>>
    /\ gameplay_periods = <<>>
    /\ rounds = <<>>
    /\ phase = "jobs"
    /\ InitStore
    /\ InitJobs
    /\ job_queue \in JobQueues

NextJob ==
    \/ \E w \in Workers : Brpop(w)
    \/ \E w \in Workers : SetProcessing(w)
    \/ \E w \in Workers : CallProcessVideo(w)
    \/ \E w \in Workers, info \in InfoResults, extracted \in ExtractResults :
           ExtractAndBuild(w, info, extracted)
    \/ \E w \in Workers : CacheResult(w)
    \/ \E w \in Workers : ProcessVideoReturns(w)
    \/ \E w \in Workers : ProcessVideoRaises(w)
    \/ \E w \in Workers : SetCompleted(w)
    \/ \E w \in Workers : SetFailed(w)
    \/ \E w \in Workers : SetError(w)

SpecJob == InitJob /\ [][NextJob]_vars

Init ==
    /\ scene_changes = <<>>
    /\ round_win_timestamps = <<>>
    /\ gameplay_periods = <<>>
    /\ rounds = <<>>
    /\ phase = "store"
    /\ InitStore
    /\ InitJobs
    /\ job_queue = <<>>

Next ==
    \/ \E w \in Workers, url \in Urls : ProcessVideoBegin(w, url)
    \/ \E w \in Workers, info \in InfoResults, extracted \in ExtractResults :
           ExtractAndBuild(w, info, extracted)
    \/ \E w \in Workers : CacheResult(w)
    \/ \E w \in Workers : Return(w)
    \/ \E k \in Keys : Expire(k)

Spec == Init /\ [][Next]_vars

(***************************************************************************)
(* The two pure functions, each applied to every input of its bounded      *)
(* domain.                                                                 *)
(***************************************************************************)
InitSeg ==
    /\ scene_changes \in SampleSeqs
    /\ round_win_timestamps = <<>>
    /\ gameplay_periods = <<>>
    /\ rounds = <<>>
    /\ phase = "samples"
    /\ InitStore
    /\ InitJobs
    /\ job_queue = <<>>

Segment ==
    /\ phase = "samples"
    /\ gameplay_periods' = DetectGameplayPeriods(scene_changes)
    /\ phase' = "periods"
    /\ UNCHANGED <<scene_changes, round_win_timestamps, rounds, svars, jvars>>

NextSeg == Segment

SpecSeg == InitSeg /\ [][NextSeg]_vars

InitBuild ==
    /\ scene_changes = <<>>
    /\ round_win_timestamps \in WinSeqs
    /\ gameplay_periods \in PeriodSeqs
    /\ rounds = <<>>
    /\ phase = "inputs"
    /\ InitStore
    /\ InitJobs
    /\ job_queue = <<>>

BuildRounds ==
    /\ phase = "inputs"
    /\ rounds' = build_rounds_from_wins(round_win_timestamps, gameplay_periods)
    /\ phase' = "rounds"
    /\ UNCHANGED <<scene_changes, round_win_timestamps, gameplay_periods, svars, jvars>>

NextBuild == BuildRounds

SpecBuild == InitBuild /\ [][NextBuild]_vars

(***************************************************************************)
(* Properties of the activity segmenter (under SpecSeg).                   *)
(***************************************************************************)
Contains(period, t) == period[1] <= t /\ t <= period[2]

\* C1: for every non-empty ascending sample sequence, each returned period
\* has start <= end, each period ends strictly before the next one starts,
\* and every sample lies in the closed bound of exactly one period.
C1_PeriodsPartitionSamples ==
    (phase = "periods" /\ scene_changes # <<>>) =>
        LET ps == gameplay_periods
        IN  /\ \A k \in 1..Len(ps) : ps[k][1] <= ps[k][2]
            /\ \A k \in 1..(Len(ps) - 1) : ps[k][2] < ps[k + 1][1]
            /\ \A i \in 1..Len(scene_changes) :
                   Cardinality({k \in 1..Len(ps) : Contains(ps[k], scene_changes[i])}) = 1

C1_Witness ==
    /\ phase = "periods"
    /\ Len(scene_changes) >= 4
    /\ Len(gameplay_periods) = 2
    /\ gameplay_periods[1][1] < gameplay_periods[1][2]

NoLongGap(sc) == \A i \in 1..(Len(sc) - 1) : sc[i + 1] - sc[i] <= Sec(180)

\* C2: a non-empty ascending sample sequence with no gap above 180 s gives
\* exactly one period, (first sample, last sample).
C2_NoGapOnePeriod ==
    (phase = "periods" /\ scene_changes # <<>> /\ NoLongGap(scene_changes)) =>
        gameplay_periods = << <<scene_changes[1], scene_changes[Len(scene_changes)]>> >>

C2_Witness ==
    /\ phase = "periods"
    /\ Len(scene_changes) >= 3
    /\ NoLongGap(scene_changes)
    /\ \E i \in 1..(Len(scene_changes) - 1) : scene_changes[i + 1] - scene_changes[i] = Sec(180)
    /\ Len(gameplay_periods) = 1

(***************************************************************************)
(* Properties of the round builder (under SpecBuild).                      *)
(***************************************************************************)

\* C3: build_rounds_from_wins returns the empty list when the event list is
\* empty, whatever the periods, and when the period list is empty, whatever
\* the events.
C3_EmptyInputEmptyRounds ==
    (phase = "rounds" /\ (round_win_timestamps = <<>> \/ gameplay_periods = <<>>)) =>
        rounds = <<>>

C3_Witness ==
    /\ phase = "rounds"
    /\ gameplay_periods = <<>>
    /\ Len(round_win_timestamps) >= 2
    /\ rounds = <<>>

\* C4: the 'round' fields of the returned list are 1, 2, ..., n in output
\* order, wherever candidates were rejected.
C4_DenseIndices ==
    phase = "rounds" => \A k \in 1..Len(rounds) : rounds[k].round = k

\* Three surviving events, the middle candidate rejected, the outer two accepted.
C4_Witness ==
    /\ phase = "rounds"
    /\ Len(round_win_timestamps) = 3
    /\ FilterWins(round_win_timestamps, 1, gameplay_periods, <<>>) = round_win_timestamps
    /\ Len(rounds) = 2
    /\ rounds[1].end = round_win_timestamps[1]
    /\ rounds[2].end = round_win_timestamps[3]
    /\ rounds[2].round = 2

C6_RoundsDoNotOverlap ==
    (/\ phase = "rounds"
     /\ Ascending(round_win_timestamps)
     /\ AscendingPeriods(gameplay_periods)) =>
        /\ \A k \in 1..Len(rounds) : rounds[k].start < rounds[k].end
        /\ \A k \in 1..(Len(rounds) - 1) : rounds[k].end <= rounds[k + 1].start

C6_Witness ==
    /\ phase = "rounds"
    /\ Ascending(round_win_timestamps)
    /\ AscendingPeriods(gameplay_periods)
    /\ Len(gameplay_periods) = 2
    /\ Len(rounds) = 3

(***************************************************************************)
(* Properties of process_video and the result cache (under Spec).          *)
(***************************************************************************)
Returned(w) == call[w].pc = "returned"

\* The lookup of the call found an entry stored under 'rounds:<video_id>'.
FoundEntry(w) == call[w].cached # <<>>

\* C7: a call whose video id already has a stored entry returns that entry,
\* and neither invokes the event/sample source nor writes the cache.
C7_CacheHitShortCircuits ==
    \A w \in Workers :
        FoundEntry(w) =>
            /\ Returned(w)
            /\ call[w].ret = JsonLoads(call[w].cached)
            /\ JsonDumps(call[w].ret) = call[w].cached
            /\ ~call[w].invoked
            /\ ~call[w].wrote

\* A second call for a video already processed, made with another URL of
\* the same video.
C7_Witness ==
    \E w \in Workers :
        /\ Returned(w)
        /\ FoundEntry(w)
        /\ call[w].ret.success
        /\ call[w].ret.total_rounds >= 1
        /\ call[w].ret.video_url # call[w].video_url

\* C8: a result answered from the cache is the result a fresh computation
\* of the same call on the same event/sample inputs would return, the
\* video_id and video_url of the call included (whatever the time of the
\* fresh computation).
C8_CacheHitEqualsFresh ==
    \A w \in Workers :
        (Returned(w) /\ FoundEntry(w)) =>
            \E t \in 0..MaxClock :
                call[w].ret =
                    ProcessResult(call[w].video_url, call[w].video_id, call[w].inputs, t)

\* C9: while an entry has not expired, it is written at most once.
C9_AtMostOneWrite ==
    \A k \in Keys : cache_writes[k] <= 1

\* No video id can be extracted from the URL.
NoVideoId(url) == extract_video_id(url) \in {NoneId, ""}

\* C10: a call with a URL that has no video id returns at once the failure
\* result 'Invalid YouTube URL'; it reads and writes no cache entry and does
\* not invoke the event/sample source, and no entry is ever stored for it.
C10_InvalidUrlFailsAtOnce ==
    /\ \A w \in Workers :
           (call[w].pc # "idle" /\ NoVideoId(call[w].video_url)) =>
               /\ Returned(w)
               /\ call[w].ret = Failure("Invalid YouTube URL")
               /\ ~call[w].invoked
               /\ ~call[w].wrote
               /\ call[w].cached = <<>>
    /\ \A k \in Keys : (k[2] \in {NoneId, ""}) => redis[k] = <<>>

\* The URL https://youtu.be/ (an empty id) fails while another video's
\* entry is stored.
C10_Witness ==
    \E w \in Workers :
        /\ Returned(w)
        /\ call[w].video_id = ""
        /\ ~call[w].ret.success
        /\ \E k \in Keys : redis[k] # <<>>

(***************************************************************************)
(* Further properties of the activity segmenter (under SpecSeg).           *)
(***************************************************************************)
LongGaps(sc) == {i \in 1..(Len(sc) - 1) : sc[i + 1] - sc[i] > Sec(180)}

\* C17: the number of periods is 0 for no samples and otherwise 1 plus the
\* number of gaps above 180 s (a gap of 175 s or 180 s does not split, a gap
\* of 185 s does); each split closes a period at the sample before the gap
\* and opens the next at the sample after it; one sample gives one period
\* with start = end.
C17_SplitRule ==
    phase = "periods" =>
        LET sc == scene_changes
            ps == gameplay_periods
        IN  /\ Len(ps) = (IF sc = <<>> THEN 0 ELSE 1 + Cardinality(LongGaps(sc)))
            /\ \A i \in 1..(Len(sc) - 1) :
                   LET splits == \E k \in 1..(Len(ps) - 1) :
                                     ps[k][2] = sc[i] /\ ps[k + 1][1] = sc[i + 1]
                   IN  /\ sc[i + 1] - sc[i] >= Sec(185) => splits
                       /\ sc[i + 1] - sc[i] <= Sec(180) => ~splits
            /\ Len(sc) = 1 => ps = << <<sc[1], sc[1]>> >>

\* Gaps of 175 s, 180 s and 185 s in one sequence: two periods.
C17_Witness ==
    /\ phase = "periods"
    /\ Len(scene_changes) = 4
    /\ {scene_changes[i + 1] - scene_changes[i] : i \in 1..3} = {Sec(175), Sec(180), Sec(185)}
    /\ Len(gameplay_periods) = 2

(***************************************************************************)
(* Further properties of the round builder (under SpecBuild).              *)
(***************************************************************************)

\* C14: every returned round has MIN_ROUND_DURATION <= duration <=
\* MAX_ROUND_DURATION, the module constants 30 and 180.
C14_NominalDurationBounds ==
    phase = "rounds" =>
        \A k \in 1..Len(rounds) :
            /\ Sec(MIN_ROUND_DURATION) <= rounds[k].duration
            /\ rounds[k].duration <= Sec(MAX_ROUND_DURATION)

\* The event lies in the closed bound of at least one period.
InsideSomePeriod(e) ==
    \E k \in 1..Len(gameplay_periods) : Contains(gameplay_periods[k], e)

\* The input events inside some period, in their input order.
SurvivingEvents == SelectSeq(round_win_timestamps, InsideSomePeriod)

\* C15: the events that survive the validity filter are the input events
\* inside at least one period, once each and in input order; every returned
\* round ends at such an event, and starts either where the first
\* candidate starts or 5 s after such an event.
C15_ValidityFilter ==
    phase = "rounds" =>
        /\ FilterWins(round_win_timestamps, 1, gameplay_periods, <<>>) = SurvivingEvents
        /\ \A k \in 1..Len(rounds) :
               /\ \E i \in 1..Len(SurvivingEvents) : rounds[k].end = SurvivingEvents[i]
               /\ \/ /\ rounds[k].end = SurvivingEvents[1]
                     /\ rounds[k].start =
                            Max(gameplay_periods[1][1], SurvivingEvents[1] - Sec(90))
                  \/ \E i \in 1..Len(SurvivingEvents) :
                         rounds[k].start = SurvivingEvents[i] + Sec(5)

\* The first event lies outside every period and the two after it, one of
\* them in two overlapping periods or at a period's end, give two rounds.
C15_Witness ==
    /\ phase = "rounds"
    /\ Len(round_win_timestamps) = 3
    /\ ~InsideSomePeriod(round_win_timestamps[1])
    /\ Len(SurvivingEvents) = 2
    /\ Len(rounds) = 2

\* The candidate intervals of the surviving events.
Candidate(i) ==
    [start |-> IF i = 1
               THEN Max(gameplay_periods[1][1], SurvivingEvents[1] - Sec(90))
               ELSE SurvivingEvents[i - 1] + Sec(5),
     end |-> SurvivingEvents[i]]

CandidateAccepted(c) ==
    Sec(30) <= c.end - c.start /\ c.end - c.start <= Sec(300)

AcceptedCandidates ==
    SelectSeq([i \in 1..Len(SurvivingEvents) |-> Candidate(i)], CandidateAccepted)

C18_RoundInsideOnePeriod ==
    \A w \in Workers :
        call[w].pc = "caching" =>
            LET periods == call[w].inputs[2]
                rs == call[w].result.rounds
            IN  \A k \in 1..Len(rs) :
                    \E j \in 1..Len(periods) :
                        periods[j][1] <= rs[k].start /\ rs[k].end <= periods[j][2]

\* A call that missed the cache, invoked the event/sample source and has
\* its return value.
MissReturned(w) == call[w].pc = "returned" /\ call[w].invoked

\* C11: on a cache miss, empty gameplay periods, an empty event set, and
\* events of which no round could be built each give a failure with its own
\* reason string ("nothing detected" twice, "detected but unusable" once),
\* and success is returned exactly when at least one round was built.
C11_NoSignalReasons ==
    \A w \in Workers :
        MissReturned(w) =>
            LET wins == call[w].inputs[1]
                periods == call[w].inputs[2]
                built == build_rounds_from_wins(wins, periods)
                ret == call[w].ret
            IN  /\ periods = <<>> => ret = Failure("No gameplay detected")
                /\ (periods # <<>> /\ wins = <<>>) =>
                       ret = Failure("No rounds detected - could not find \"ROUND WIN\" text")
                /\ (periods # <<>> /\ wins # <<>> /\ built = <<>>) =>
                       ret = Failure("Could not build rounds from detected wins")
                /\ ret.success <=> (periods # <<>> /\ wins # <<>> /\ built # <<>>)
                /\ ret.success => ret.rounds = built

C11_Witness ==
    \E w \in Workers :
        /\ MissReturned(w)
        /\ call[w].inputs[1] # <<>>
        /\ call[w].inputs[2] # <<>>
        /\ call[w].ret = Failure("Could not build rounds from detected wins")

\* C20: every entry stored under rounds:<video_id> is a success result with
\* the key's video id, a non-empty round list and total_rounds equal to its
\* length; a call that wrote to the cache returned a success.
C20_CacheContent ==
    /\ \A k \in Keys :
           redis[k] # <<>> =>
               LET r == JsonLoads(redis[k])
               IN  /\ r.success
                   /\ RoundsKey(r.video_id) = k
                   /\ r.rounds # <<>>
                   /\ r.total_rounds = Len(r.rounds)
    /\ \A w \in Workers : call[w].wrote => call[w].ret.success

C20_Witness ==
    /\ \E k \in Keys : redis[k] # <<>>
    /\ \E w \in Workers : MissReturned(w) /\ ~call[w].ret.success

(***************************************************************************)
(* Properties of process_job (under SpecJob).                              *)
(***************************************************************************)
ToolFailed(j) == job_log[j].tool \in {"nonzero", "timeout"}

\* C12: a job during which fetching the video info timed out or exited
\* nonzero ends with status 'failed' and the exception text as its error.
C12_ToolFailureFailsJob ==
    \A j \in JobIds :
        (job_log[j].done /\ ToolFailed(j)) =>
            /\ job_store[j].status = "failed"
            /\ job_store[j].error # NoValue

\* C13: in every state, a job whose status is 'failed' has its error string
\* stored.
C13_FailedHasError ==
    \A j \in JobIds :
        job_store[j].status = "failed" => job_store[j].error # NoValue

\* C19: 'processing' is the first status written for a job, a terminal
\* status is written once and last, and in every state a job whose status
\* is 'completed' has the result process_video returned stored as its result.
C19_JobLifecycle ==
    \A j \in JobIds :
        LET log == job_log[j].statuses
        IN  /\ log # <<>> => log[1] = "processing"
            /\ Len(log) <= 2
            /\ Len(log) = 2 => log[2] \in {"completed", "failed"}
            /\ job_log[j].done => Len(log) = 2
            /\ log # <<>> => job_store[j].status = log[Len(log)]
            /\ job_store[j].status = "completed" =>
                   /\ job_log[j].returned # NoResult
                   /\ job_store[j].result = JsonDumps(job_log[j].returned)

\* One job has completed with rounds, another has failed.
C19_Witness ==
    /\ \E j \in JobIds :
           /\ job_log[j].done
           /\ job_store[j].status = "completed"
           /\ job_log[j].returned.success
    /\ \E j \in JobIds :
           /\ job_log[j].done
           /\ job_store[j].status = "failed"

====
